---- MODULE Spec2Model ----
(***************************************************************************)
(* Board representation of magenta-chess: the identity encodings of        *)
(* types.rs (Color, PieceType, Piece, Square, Castling), the Bitboard of   *)
(* bitboard.rs and the Position of position.rs with its FEN decoder        *)
(* Position::from_fen and its placement primitive Position::put_piece.     *)
(*                                                                         *)
(* Representation.  A char is a one-character string and a &str is a       *)
(* sequence of chars.  A u8 or usize is a natural number.  A Bitboard      *)
(* (u64) is the set of the positions of its set bits, a subset of 0..63:   *)
(* bitwise OR is set union and a shift moves every position.  A u32 is a   *)
(* pair of 16-bit limbs [hi, lo] standing for hi * 65536 + lo, so that the *)
(* full 32-bit range is covered.  The build profile decides what an        *)
(* arithmetic overflow does (a panic with overflow checks, a wrap-around   *)
(* without): it is the variable overflow_checks, chosen freely at start.   *)
(***************************************************************************)
EXTENDS Naturals, Sequences, FiniteSets

VARIABLES
    overflow_checks, \* build profile: TRUE panics on overflow, FALSE wraps
    fields,          \* from_fen: fen_str.split_whitespace().collect()
    chr,             \* from_fen: number of chars of fields[0] already scanned
    idx,             \* from_fen: the display-order cursor
    p,               \* from_fen: the Position under construction
    pc,              \* from_fen: the field about to be decoded, "done" or "abort"
    aborted,         \* TRUE once a panic has ended the program, at stage pc
    result,          \* the Position the caller holds, NoPosition before the return
    put_log,         \* the caller's put_piece calls on result, in order
    call             \* the calls of the pure functions of types.rs (SpecTypes)

vars == <<overflow_checks, fields, chr, idx, p, pc, aborted, result, put_log, call>>

---------------------------------------------------------------------------
(* u8 arithmetic of types.rs *)

RECURSIVE BitAnd(_, _)
BitAnd(a, b) ==
    IF a = 0 \/ b = 0 THEN 0
    ELSE (IF a % 2 = 1 /\ b % 2 = 1 THEN 1 ELSE 0) + 2 * BitAnd(a \div 2, b \div 2)

RECURSIVE BitOr(_, _)
BitOr(a, b) ==
    IF a = 0 THEN b
    ELSE IF b = 0 THEN a
    ELSE (IF a % 2 = 1 \/ b % 2 = 1 THEN 1 ELSE 0) + 2 * BitOr(a \div 2, b \div 2)

\* x << n and x >> n on a u8
Shl8(x, n) == (x * 2^n) % 256
Shr8(x, n) == x \div 2^n

---------------------------------------------------------------------------
(* types.rs: Color, PieceType, Piece *)

White == 0
Black == 1
Colors == {White, Black}

PT_None == 0
PT_P == 1
PT_N == 2
PT_B == 3
PT_R == 4
PT_Q == 5
PT_K == 6
PT_All == 7
PieceTypes == PT_None .. PT_All
RealKinds == {PT_P, PT_N, PT_B, PT_R, PT_Q, PT_K}

Piece_None == 0
WhitePawn == 1
WhiteKnight == 2
WhiteBishop == 3
WhiteRook == 4
WhiteQueen == 5
WhiteKing == 6
BlackPawn == 9
BlackKnight == 10
BlackBishop == 11
BlackRook == 12
BlackQueen == 13
BlackKing == 14
Pieces == {Piece_None, WhitePawn, WhiteKnight, WhiteBishop, WhiteRook, WhiteQueen,
           WhiteKing, BlackPawn, BlackKnight, BlackBishop, BlackRook, BlackQueen,
           BlackKing}

\* Piece::make with the colour bit shifted by 4 instead of 3
make_shift4(color_, piece_type) ==
    LET bits == BitOr(Shl8(color_, 4), piece_type)
    IN  IF bits \in Pieces THEN bits ELSE Piece_None

\* Piece::make: the match falls through to Piece::None for every other pattern
make(color_, piece_type) ==
    LET bits == BitOr(Shl8(color_, 3), piece_type)
    IN  CASE bits = 1 -> WhitePawn
          [] bits = 2 -> WhiteKnight
          [] bits = 3 -> WhiteBishop
          [] bits = 4 -> WhiteRook
          [] bits = 5 -> WhiteQueen
          [] bits = 6 -> WhiteKing
          [] bits = 9 -> BlackPawn
          [] bits = 10 -> BlackKnight
          [] bits = 11 -> BlackBishop
          [] bits = 12 -> BlackRook
          [] bits = 13 -> BlackQueen
          [] bits = 14 -> BlackKing
          [] OTHER -> Piece_None

\* Piece::color
color(piece) ==
    LET color_bit == BitAnd(Shr8(piece, 3), 1)
    IN  IF color_bit = 0 THEN White ELSE Black

\* Piece::type_of
type_of(piece) ==
    LET piece_type == BitAnd(piece, 7)
    IN  CASE piece_type = 0 -> PT_None
          [] piece_type = 1 -> PT_P
          [] piece_type = 2 -> PT_N
          [] piece_type = 3 -> PT_B
          [] piece_type = 4 -> PT_R
          [] piece_type = 5 -> PT_Q
          [] piece_type = 6 -> PT_K
          [] piece_type = 7 -> PT_All
          [] OTHER -> PT_None

---------------------------------------------------------------------------
(* types.rs: Square; bitboard.rs: Bitboard *)

SQ_NONE == 64
Squares == 0 .. 63
AllSquares == 0 .. SQ_NONE

\* Square::index
index(s) == s

EMPTY == {}
\* the u64 literal 1
ONE == {0}

\* u64 >> n for 0 <= n < 64
ShrBB(bb, n) == {b - n : b \in {x \in bb : x >= n}}

\* BitOr / BitOrAssign for Bitboard
bitor(a, b) == a \cup b

\* Square::to_bb for a shift amount below 64: 1u64 >> self.0
to_bb(s) == ShrBB(ONE, s)

\* A shift by 64 or more overflows: a panic with overflow checks, and
\* otherwise the shift amount is taken modulo 64.
to_bb_overflows(s) == s >= 64
to_bb_wrapped(s) == ShrBB(ONE, s % 64)

---------------------------------------------------------------------------
(* u32 arithmetic: a value is [hi, lo], two 16-bit limbs.  Every operation *)
(* returns [ov, val]: whether the exact result leaves the u32 range, and   *)
(* the result modulo 2^32.                                                 *)

LIMB == 65536
U32(h, l) == [hi |-> h, lo |-> l]
U32_ZERO == U32(0, 0)
U32_ONE == U32(0, 1)

\* a + b
U32Add(a, b) ==
    LET lo2 == a.lo + b.lo
        hi2 == a.hi + b.hi + (lo2 \div LIMB)
    IN  [ov |-> hi2 >= LIMB, val |-> U32(hi2 % LIMB, lo2 % LIMB)]

\* a - b
U32Sub(a, b) ==
    LET borrow == IF a.lo < b.lo THEN 1 ELSE 0
        lo2 == ((a.lo + LIMB) - b.lo) % LIMB
        hi2 == ((a.hi + 2 * LIMB) - (b.hi + borrow)) % LIMB
    IN  [ov |-> a.hi < b.hi + borrow, val |-> U32(hi2, lo2)]

\* k * a for a small constant k (k < 2^14)
U32MulSmall(k, a) ==
    LET lo2 == k * a.lo
        hi2 == k * a.hi + (lo2 \div LIMB)
    IN  [ov |-> hi2 >= LIMB, val |-> U32(hi2 % LIMB, lo2 % LIMB)]

---------------------------------------------------------------------------
(* chars and strings of the standard library, as from_fen uses them *)

DigitValue ==
    [c \in {"0", "1", "2", "3", "4", "5", "6", "7", "8", "9"} |->
        CASE c = "0" -> 0 [] c = "1" -> 1 [] c = "2" -> 2 [] c = "3" -> 3
          [] c = "4" -> 4 [] c = "5" -> 5 [] c = "6" -> 6 [] c = "7" -> 7
          [] c = "8" -> 8 [] c = "9" -> 9]

\* char::is_digit(10) and char::to_digit(10)
is_digit(c) == c \in DOMAIN DigitValue
to_digit(c) == DigitValue[c]

\* char::is_uppercase on the ASCII range
is_uppercase(c) ==
    c \in {"A", "B", "C", "D", "E", "F", "G", "H", "I", "J", "K", "L", "M", "N",
           "O", "P", "Q", "R", "S", "T", "U", "V", "W", "X", "Y", "Z"}

\* char::is_whitespace on the ASCII range
is_whitespace(c) == c \in {" ", "\t", "\n", "\r"}

\* str::split_whitespace: the maximal runs of non-whitespace chars, in order
RECURSIVE SplitFrom(_, _)
SplitFrom(s, cur) ==
    IF s = <<>> THEN (IF cur = <<>> THEN <<>> ELSE <<cur>>)
    ELSE IF is_whitespace(Head(s))
         THEN (IF cur = <<>> THEN <<>> ELSE <<cur>>) \o SplitFrom(Tail(s), <<>>)
         ELSE SplitFrom(Tail(s), Append(cur, Head(s)))

split_whitespace(s) == SplitFrom(s, <<>>)

\* the digit loop of u32::from_str: result = result * 10 + digit, both checked
RECURSIVE ParseDigits(_, _)
ParseDigits(digits, acc) ==
    IF digits = <<>> THEN [ok |-> TRUE, val |-> acc]
    ELSE IF ~is_digit(Head(digits)) THEN [ok |-> FALSE, val |-> U32_ZERO]
    ELSE LET m == U32MulSmall(10, acc)
             a == U32Add(m.val, U32(0, to_digit(Head(digits))))
         IN  IF m.ov \/ a.ov THEN [ok |-> FALSE, val |-> U32_ZERO]
             ELSE ParseDigits(Tail(digits), a.val)

\* str::parse::<u32>: an empty string, a lone sign, a '-' and a non-digit are
\* errors, a leading '+' is accepted, a value above u32::MAX is an error
parse_u32(src) ==
    IF src = <<>> THEN [ok |-> FALSE, val |-> U32_ZERO]
    ELSE IF Head(src) \in {"+", "-"} /\ Len(src) = 1 THEN [ok |-> FALSE, val |-> U32_ZERO]
    ELSE IF Head(src) = "+" THEN ParseDigits(Tail(src), U32_ZERO)
    ELSE ParseDigits(src, U32_ZERO)

---------------------------------------------------------------------------
(* types.rs: Castling *)

C_WHITE_K == 8
C_WHITE_Q == 4
C_BLACK_K == 2
C_BLACK_Q == 1
C_ALL == 15
C_NONE == 0

---------------------------------------------------------------------------
(* position.rs *)

COLOR_CNT == 2
PIECE_TYPE_CNT == 8
SQ_CNT == 64

\* the squares listed from rank 1 upward
SQ_DISPLAY_ORDER_rank1_first == [i \in 1 .. 64 |-> i - 1]

\* SQ_DISPLAY_ORDER[i] of the source is SQ_DISPLAY_ORDER[i + 1] here
SQ_DISPLAY_ORDER ==
    << 56, 57, 58, 59, 60, 61, 62, 63,
       48, 49, 50, 51, 52, 53, 54, 55,
       40, 41, 42, 43, 44, 45, 46, 47,
       32, 33, 34, 35, 36, 37, 38, 39,
       24, 25, 26, 27, 28, 29, 30, 31,
       16, 17, 18, 19, 20, 21, 22, 23,
        8,  9, 10, 11, 12, 13, 14, 15,
        0,  1,  2,  3,  4,  5,  6,  7 >>

\* SQ_INDEX_ORDER[i] of the source is SQ_INDEX_ORDER[i + 1] here
SQ_INDEX_ORDER ==
    <<  0,  1,  2,  3,  4,  5,  6,  7,
        8,  9, 10, 11, 12, 13, 14, 15,
       16, 17, 18, 19, 20, 21, 22, 23,
       24, 25, 26, 27, 28, 29, 30, 31,
       32, 33, 34, 35, 36, 37, 38, 39,
       40, 41, 42, 43, 44, 45, 46, 47,
       48, 49, 50, 51, 52, 53, 54, 55,
       56, 57, 58, 59, 60, 61, 62, 63 >>

\* the Position literal from_fen starts from
NewPosition ==
    [bbs |-> [i \in 0 .. PIECE_TYPE_CNT - 1 |-> EMPTY],
     bbs_color |-> [c \in 0 .. COLOR_CNT - 1 |-> EMPTY],
     board |-> [s \in 0 .. SQ_CNT - 1 |-> Piece_None],
     turn |-> White,
     castle_rights |-> C_NONE,
     ep_square |-> SQ_NONE,
     rule50_count |-> U32_ZERO,
     game_ply |-> U32_ONE]

\* what the caller holds before from_fen has returned
NoPosition == [NewPosition EXCEPT !.turn = 2]

\* put_piece that assigns the singleton instead of OR-ing it in
put_piece_assign(q, pcv, s) ==
    LET q1 == [q EXCEPT !.board[index(s)] = pcv]
        q2 == [q1 EXCEPT !.bbs[type_of(pcv)] = to_bb(s)]
    IN  [q2 EXCEPT !.bbs_color[color(pcv)] = to_bb(s)]

\* Position::put_piece panics on the board index of the no-square sentinel
put_piece_panics(s) == index(s) >= SQ_CNT

\* Position::put_piece, for a square inside the board array
put_piece(q, pcv, s) ==
    LET q1 == [q EXCEPT !.board[index(s)] = pcv]
        q2 == [q1 EXCEPT !.bbs[type_of(pcv)] = bitor(@, to_bb(s))]
    IN  [q2 EXCEPT !.bbs_color[color(pcv)] = bitor(@, to_bb(s))]

---------------------------------------------------------------------------
(* Position::from_fen: the bodies of its loops and its field decoders.     *)
(* Each returns [panic, ...]: whether the code panics there, and the       *)
(* values it has assigned otherwise.                                       *)

\* the match of a placement letter on the piece kinds
KindOfLetter(c) ==
    CASE c \in {"p", "P"} -> PT_P
      [] c \in {"n", "N"} -> PT_N
      [] c \in {"b", "B"} -> PT_B
      [] c \in {"r", "R"} -> PT_R
      [] c \in {"q", "Q"} -> PT_Q
      [] c \in {"k", "K"} -> PT_K
      [] OTHER -> PT_None

\* 1. Piece placement: the loop body for char c at cursor i on Position q.
\* SQ_DISPLAY_ORDER[idx] panics for a cursor outside the table.
PlacementChar(c, i, q) ==
    IF is_digit(c) THEN [panic |-> FALSE, idx |-> i + 1 * to_digit(c), p |-> q]
    ELSE IF c = "/" THEN [panic |-> FALSE, idx |-> i, p |-> q]
    ELSE IF i >= SQ_CNT THEN [panic |-> TRUE, idx |-> i, p |-> q]
    ELSE [panic |-> FALSE, idx |-> i + 1,
          p |-> put_piece(q, make(IF is_uppercase(c) THEN White ELSE Black,
                                  KindOfLetter(c)), SQ_DISPLAY_ORDER[i + 1])]

\* the active colour with every token other than "b" read as White
ActiveColorOf_lenient(tok) ==
    IF tok = <<"b">> THEN [panic |-> FALSE, turn |-> Black]
    ELSE [panic |-> FALSE, turn |-> White]

\* 2. Active color
ActiveColorOf(tok) ==
    IF tok = <<"w">> THEN [panic |-> FALSE, turn |-> White]
    ELSE IF tok = <<"b">> THEN [panic |-> FALSE, turn |-> Black]
    ELSE [panic |-> TRUE, turn |-> White]

\* 3. Castling availability: the rights of one char, and the loop OR-ing them
CastlingOfChar(c) ==
    CASE c = "K" -> C_WHITE_K
      [] c = "Q" -> C_WHITE_Q
      [] c = "k" -> C_BLACK_K
      [] c = "q" -> C_BLACK_Q
      [] OTHER -> C_NONE

RECURSIVE CastlingOf(_, _)
CastlingOf(tok, rights) ==
    IF tok = <<>> THEN rights
    ELSE CastlingOf(Tail(tok), BitOr(rights, CastlingOfChar(Head(tok))))

\* 4. En passant target square: the match on the first char
EpFirstChar(c) ==
    CASE c = "-" -> [panic |-> FALSE, sq |-> SQ_NONE]
      [] c = "a" -> [panic |-> FALSE, sq |-> 16]
      [] c = "b" -> [panic |-> FALSE, sq |-> 17]
      [] c = "c" -> [panic |-> FALSE, sq |-> 18]
      [] c = "d" -> [panic |-> FALSE, sq |-> 19]
      [] c = "e" -> [panic |-> FALSE, sq |-> 20]
      [] c = "f" -> [panic |-> FALSE, sq |-> 21]
      [] c = "g" -> [panic |-> FALSE, sq |-> 22]
      [] c = "h" -> [panic |-> FALSE, sq |-> 23]
      [] OTHER -> [panic |-> TRUE, sq |-> SQ_NONE]

\* the loop over the en-passant field: the first char picks the rank-3 square,
\* a second char moves it by 24 through SQ_INDEX_ORDER (a panic outside the
\* table), further chars do nothing
EnPassantOf(tok) ==
    LET first == EpFirstChar(tok[1])
    IN  IF first.panic \/ Len(tok) < 2 THEN first
        ELSE IF index(first.sq) + 24 >= SQ_CNT THEN [panic |-> TRUE, sq |-> first.sq]
        ELSE [panic |-> FALSE, sq |-> SQ_INDEX_ORDER[index(first.sq) + 24 + 1]]

\* the ply computed as 2 * fullmove + turn, without stepping back one move
GamePlyOf_no_step_back(fullmove, turn) ==
    LET mul == U32MulSmall(2, fullmove)
        add == U32Add(mul.val, U32(0, IF turn = Black THEN 1 ELSE 0))
    IN  [ov |-> mul.ov \/ add.ov, val |-> add.val]

\* 6. 2 * (fullmove - 1) + (1 for Black): ov tells whether a step overflows
GamePlyOf(fullmove, turn) ==
    LET sub == U32Sub(fullmove, U32_ONE)
        mul == U32MulSmall(2, sub.val)
        add == U32Add(mul.val, U32(0, IF turn = Black THEN 1 ELSE 0))
    IN  [ov |-> sub.ov \/ mul.ov \/ add.ov, val |-> add.val]

---------------------------------------------------------------------------
(* The inputs of from_fen *)

RECURSIVE Join(_, _)
Join(toks, sep) ==
    IF toks = <<>> THEN <<>>
    ELSE IF Len(toks) = 1 THEN toks[1]
    ELSE toks[1] \o sep \o Join(Tail(toks), sep)

DEFAULT_FEN_STRING ==
    << "r", "n", "b", "q", "k", "b", "n", "r", "/",
       "p", "p", "p", "p", "p", "p", "p", "p", "/",
       "8", "/",
       "8", "/",
       "8", "/",
       "8", "/",
       "P", "P", "P", "P", "P", "P", "P", "P", "/",
       "R", "N", "B", "Q", "K", "B", "N", "R", " ",
       "w", " ", "K", "Q", "k", "q", " ", "-", " ", "0", " ", "1" >>

\* at most this many ranks of a generated placement hold pieces
MaxBusyRanks == 1
\* at most this many put_piece calls of the caller after the decode
MaxPuts == 2

EmptyRank == <<"8">>
BusyRankStrs ==
    {<<"R", "6", "k">>,
    <<"4", "P", "3">>,
    <<"x", "7">>,
    <<"q", "B", "6">>,
    <<"1", "n", "5", "X">>}

\* eight ranks, rank 8 first, of which those in DOMAIN f hold pieces
PlacementOf(f) ==
    Join([j \in 1 .. 8 |-> IF j \in DOMAIN f THEN f[j] ELSE EmptyRank], <<"/">>)

GeneratedPlacements ==
    {PlacementOf(f) : f \in UNION {[S -> BusyRankStrs] :
        S \in {T \in SUBSET (1 .. 8) : Cardinality(T) <= MaxBusyRanks}}}

\* placements that do not describe eight ranks of eight squares
IrregularPlacements ==
    {<<"8", "/", "8", "/", "8", "/", "8", "/", "8", "/", "8", "/", "8", "/", "8", "R">>,
    <<"8", "/", "8", "/", "8", "/", "8", "/", "8", "/", "8", "/", "8", "/", "9">>,
    <<"r", "n", "b", "q", "k", "b", "n", "r">>,
    <<"4", "4", "/", "R", "7">>,
    <<"K">>}

EmptyBoard == PlacementOf(<<>>)

SideTokens == {<<"w">>, <<"b">>, <<"x">>, <<"W">>}
CastlingTokens == {<<"K", "Q", "k", "q">>, <<"-">>, <<"K", "x">>}
EpTokens ==
    {<<f, r>> : f \in {"a", "b", "c", "d", "e", "f", "g", "h"}, r \in {"3", "6"}}
    \cup {<<"-">>, <<"e">>, <<"x", "3">>, <<"-", "3">>, <<"e", "3", "4">>, <<"i", "6">>}
HalfmoveTokens ==
    {<<"0">>,
    <<"4">>,
    <<"5", "0">>,
    <<"x">>,
    <<"+", "4">>,
    <<"-", "1">>,
    <<"4", "x">>,
    <<"4", "2", "9", "4", "9", "6", "7", "2", "9", "5">>,
    <<"4", "2", "9", "4", "9", "6", "7", "2", "9", "6">>}
FullmoveTokens ==
    {<<"1">>,
    <<"5">>,
    <<"0">>,
    <<"x">>,
    <<"+", "5">>,
    <<"2", "1", "4", "7", "4", "8", "3", "6", "4", "8">>,
    <<"2", "1", "4", "7", "4", "8", "3", "6", "4", "9">>,
    <<"4", "2", "9", "4", "9", "6", "7", "2", "9", "5">>,
    <<"4", "2", "9", "4", "9", "6", "7", "2", "9", "6">>}

Fen(pl, side, castling, ep, half, full) ==
    Join(<<pl, side, castling, ep, half, full>>, <<" ">>)

PlacementInputs ==
    {Fen(pl, <<"w">>, <<"K", "Q", "k", "q">>, <<"-">>, <<"0">>, <<"1">>) :
        pl \in GeneratedPlacements \cup IrregularPlacements}

EpInputs ==
    {Fen(EmptyBoard, side, <<"-">>, ep, <<"0">>, <<"1">>) :
        side \in {<<"w">>, <<"b">>}, ep \in EpTokens}

ClockInputs ==
    {Fen(EmptyBoard, side, <<"-">>, <<"-">>, half, full) :
        side \in {<<"w">>, <<"b">>}, half \in HalfmoveTokens, full \in FullmoveTokens}

\* inputs with several fields that cannot be decoded
CrossInputs ==
    {Fen(EmptyBoard, side, castling, ep, half, full) :
        side \in SideTokens, castling \in CastlingTokens,
        ep \in {<<"-">>, <<"x", "3">>, <<"-", "3">>},
        half \in {<<"0">>, <<"x">>, <<"4", "2", "9", "4", "9", "6", "7", "2", "9", "6">>},
        full \in {<<"1">>, <<"x">>}}

\* fewer or more than six fields, and whitespace runs between them
OddInputs ==
    {<<>>,
    <<" ", " ", " ">>,
    <<"8", "/", "8", "/", "8", "/", "8", "/", "8", "/", "8", "/", "8", "/", "8">>,
    <<"8", "/", "8", "/", "8", "/", "8", "/", "8", "/", "8", "/", "8", "/", "8", " ", "w">>,
    <<"8", "/", "8", "/", "8", "/", "8", "/", "8", "/", "8", "/", "8", "/", "8", " ", "b", " ", "-">>,
    <<"8", "/", "8", "/", "8", "/", "8", "/", "8", "/", "8", "/", "8", "/", "8", " ", "w", " ", "-", " ", "-">>,
    <<"8", "/", "8", "/", "8", "/", "8", "/", "8", "/", "8", "/", "8", "/", "8", " ", "w", " ", "-", " ", "-", " ", "0">>,
    <<"8", "/", "8", "/", "8", "/", "8", "/", "8", "/", "8", "/", "8", "/", "8", " ", "w", " ", "-", " ", "-", " ", "0", " ", "1", " ", "e", "x", "t", "r", "a">>,
    <<"8", "/", "8", "/", "8", "/", "8", "/", "8", "/", "8", "/", "8", "/", "8", "R", " ", "x", " ", "-", " ", "-", " ", "0", " ", "1">>,
    <<" ", " ", "8", "/", "8", "/", "8", "/", "8", "/", "8", "/", "8", "/", "8", "/", "8", " ", " ", "b", " ", " ", " ", "K", "q", " ", " ", "e", "6", " ", "4", " ", " ", " ", "5", " ">>}

FenStrings ==
    {DEFAULT_FEN_STRING} \cup PlacementInputs \cup EpInputs \cup ClockInputs
    \cup CrossInputs \cup OddInputs

\* the arguments of the caller's put_piece calls
PutPieces == {Piece_None, WhitePawn, BlackKing}
PutSquares == {0, 28, SQ_NONE}

---------------------------------------------------------------------------
(* The state machine of Position::from_fen and of its caller *)

NoCall ==
    [color |-> White, kind |-> PT_None, sq |-> 0, done |-> {},
     piece |-> Piece_None, rcolor |-> White, rkind |-> PT_None,
     bb |-> EMPTY, panicked |-> FALSE]

Init ==
    /\ overflow_checks \in BOOLEAN
    /\ \E fen_str \in FenStrings : fields = split_whitespace(fen_str)
    /\ chr = 0
    /\ idx = 0
    /\ p = NewPosition
    /\ pc = "placement"
    /\ aborted = FALSE
    /\ result = NoPosition
    /\ put_log = <<>>
    /\ call = NoCall

\* a panic: the program ends at the stage it is in, nothing is returned
Panic ==
    /\ aborted' = TRUE
    /\ UNCHANGED <<overflow_checks, fields, chr, idx, p, pc, result, put_log, call>>

\* 1. Piece placement: one iteration of the loop over fields[0].chars()
Placement ==
    /\ pc = "placement"
    /\ ~aborted
    /\ IF Len(fields) < 1 THEN Panic
       ELSE LET r == PlacementChar(fields[1][chr + 1], idx, p)
            IN  IF r.panic THEN Panic
                ELSE /\ idx' = r.idx
                     /\ p' = r.p
                     /\ chr' = chr + 1
                     /\ pc' = IF chr + 1 = Len(fields[1]) THEN "turn" ELSE "placement"
                     /\ UNCHANGED <<overflow_checks, fields, aborted, result, put_log, call>>

\* 2. Active color
ActiveColor ==
    /\ pc = "turn"
    /\ ~aborted
    /\ IF Len(fields) < 2 THEN Panic
       ELSE LET r == ActiveColorOf(fields[2])
            IN  IF r.panic THEN Panic
                ELSE /\ p' = [p EXCEPT !.turn = r.turn]
                     /\ pc' = "castling"
                     /\ UNCHANGED <<overflow_checks, fields, chr, idx, aborted, result,
                                    put_log, call>>

\* 3. Castling availability
CastlingAvailability ==
    /\ pc = "castling"
    /\ ~aborted
    /\ IF Len(fields) < 3 THEN Panic
       ELSE /\ p' = [p EXCEPT !.castle_rights = CastlingOf(fields[3], @)]
            /\ pc' = "ep"
            /\ UNCHANGED <<overflow_checks, fields, chr, idx, aborted, result,
                           put_log, call>>

\* 4. En passant target square
EnPassant ==
    /\ pc = "ep"
    /\ ~aborted
    /\ IF Len(fields) < 4 THEN Panic
       ELSE LET r == EnPassantOf(fields[4])
            IN  IF r.panic THEN Panic
                ELSE /\ p' = [p EXCEPT !.ep_square = r.sq]
                     /\ pc' = "halfmove"
                     /\ UNCHANGED <<overflow_checks, fields, chr, idx, aborted, result,
                                    put_log, call>>

\* 5. Halfmove clock: fields[4].parse().unwrap()
Halfmove ==
    /\ pc = "halfmove"
    /\ ~aborted
    /\ IF Len(fields) < 5 THEN Panic
       ELSE LET r == parse_u32(fields[5])
            IN  IF ~r.ok THEN Panic
                ELSE /\ p' = [p EXCEPT !.rule50_count = r.val]
                     /\ pc' = "fullmove"
                     /\ UNCHANGED <<overflow_checks, fields, chr, idx, aborted, result,
                                    put_log, call>>

\* 6. Convert fullmove number to game ply, and return p
Fullmove ==
    /\ pc = "fullmove"
    /\ ~aborted
    /\ IF Len(fields) < 6 THEN Panic
       ELSE LET r == parse_u32(fields[6])
                g == GamePlyOf(r.val, p.turn)
            IN  IF ~r.ok \/ (g.ov /\ overflow_checks) THEN Panic
                ELSE /\ p' = [p EXCEPT !.game_ply = g.val]
                     /\ result' = p'
                     /\ pc' = "done"
                     /\ UNCHANGED <<overflow_checks, fields, chr, idx, aborted,
                                    put_log, call>>

\* the caller places a piece on the Position it got
PutPiece ==
    /\ pc = "done"
    /\ ~aborted
    /\ Len(put_log) < MaxPuts
    /\ \E pcv \in PutPieces, s \in PutSquares :
          IF put_piece_panics(s) THEN Panic
          ELSE /\ result' = put_piece(result, pcv, s)
               /\ put_log' = Append(put_log, [pc |-> pcv, s |-> s,
                                              prev |-> result.board[index(s)]])
               /\ UNCHANGED <<overflow_checks, fields, chr, idx, p, pc, aborted, call>>

Next ==
    \/ Placement
    \/ ActiveColor
    \/ CastlingAvailability
    \/ EnPassant
    \/ Halfmove
    \/ Fullmove
    \/ PutPiece

Spec == Init /\ [][Next]_vars

---------------------------------------------------------------------------
(* The pure functions of types.rs, called on every argument *)

InitTypes ==
    /\ overflow_checks \in BOOLEAN
    /\ fields = <<>>
    /\ chr = 0
    /\ idx = 0
    /\ p = NewPosition
    /\ pc = "types"
    /\ aborted = FALSE
    /\ result = NoPosition
    /\ put_log = <<>>
    /\ \E c \in Colors, k \in PieceTypes, s \in AllSquares :
          call = [NoCall EXCEPT !.color = c, !.kind = k, !.sq = s]

decode_vars == <<overflow_checks, fields, chr, idx, p, pc, aborted, result, put_log>>

\* Piece::make(color, kind)
CallMake ==
    /\ "make" \notin call.done
    /\ call' = [call EXCEPT !.piece = make(call.color, call.kind),
                            !.done = @ \cup {"make"}]
    /\ UNCHANGED decode_vars

\* .color() of the piece made
CallColor ==
    /\ "make" \in call.done
    /\ "color" \notin call.done
    /\ call' = [call EXCEPT !.rcolor = color(call.piece), !.done = @ \cup {"color"}]
    /\ UNCHANGED decode_vars

\* .type_of() of the piece made
CallTypeOf ==
    /\ "make" \in call.done
    /\ "type_of" \notin call.done
    /\ call' = [call EXCEPT !.rkind = type_of(call.piece), !.done = @ \cup {"type_of"}]
    /\ UNCHANGED decode_vars

\* Square::to_bb of the square: a shift by 64 panics with overflow checks and
\* shifts by 64 mod 64 without
CallToBb ==
    /\ "to_bb" \notin call.done
    /\ call' = [call EXCEPT
                  !.bb = IF to_bb_overflows(call.sq)
                         THEN (IF overflow_checks THEN EMPTY ELSE to_bb_wrapped(call.sq))
                         ELSE to_bb(call.sq),
                  !.panicked = to_bb_overflows(call.sq) /\ overflow_checks,
                  !.done = @ \cup {"to_bb"}]
    /\ UNCHANGED decode_vars

NextTypes ==
    \/ CallMake
    \/ CallColor
    \/ CallTypeOf
    \/ CallToBb

SpecTypes == InitTypes /\ [][NextTypes]_vars

---------------------------------------------------------------------------
(* What the properties below say about an input, computed from the input   *)
(* alone: decimal numerals, placement fields, standard chess notation.     *)

DecDigits == <<"0", "1", "2", "3", "4", "5", "6", "7", "8", "9">>
FileLetters == <<"a", "b", "c", "d", "e", "f", "g", "h">>
PieceLetters == <<"P", "N", "B", "R", "Q", "K", "p", "n", "b", "r", "q", "k">>
LetterPieces == <<WhitePawn, WhiteKnight, WhiteBishop, WhiteRook, WhiteQueen, WhiteKing,
                  BlackPawn, BlackKnight, BlackBishop, BlackRook, BlackQueen, BlackKing>>

Range(seq) == {seq[i] : i \in DOMAIN seq}
PosIn(seq, c) == CHOOSE i \in DOMAIN seq : seq[i] = c

DecDigitSet == Range(DecDigits)
FileLetterSet == Range(FileLetters)
PieceLetterSet == Range(PieceLetters)

IsDecDigit(c) == c \in DecDigitSet
DecDigitValue == [c \in DecDigitSet |-> PosIn(DecDigits, c) - 1]
DecDigitOf(c) == DecDigitValue[c]
FileOf(c) == PosIn(FileLetters, c) - 1
PieceOfLetter(c) == IF c \in PieceLetterSet THEN LetterPieces[PosIn(PieceLetters, c)]
                    ELSE Piece_None

\* a numeral of one to ten digits
IsNumeral(tok) == Len(tok) \in 1 .. 10 /\ \A i \in DOMAIN tok : IsDecDigit(tok[i])
\* a numeral, or a numeral with a leading plus sign
IsSignedNumeral(tok) ==
    IsNumeral(tok) \/ (Len(tok) >= 2 /\ tok[1] = "+" /\ IsNumeral(Tail(tok)))
Unsigned(tok) == IF tok[1] = "+" THEN Tail(tok) ELSE tok

RECURSIVE DecNat(_)
DecNat(ds) ==
    IF ds = <<>> THEN 0
    ELSE 10 * DecNat(SubSeq(ds, 1, Len(ds) - 1)) + DecDigitOf(ds[Len(ds)])

\* the value of a numeral as [H, L], standing for H * 100000 + L
Dec5(tok) ==
    IF Len(tok) <= 5 THEN [H |-> 0, L |-> DecNat(tok)]
    ELSE [H |-> DecNat(SubSeq(tok, 1, Len(tok) - 5)),
          L |-> DecNat(SubSeq(tok, Len(tok) - 4, Len(tok)))]

Dec5Leq(a, b) == a.H < b.H \/ (a.H = b.H /\ a.L <= b.L)
\* 2^32 - 1 and 2^31
Dec5_U32_MAX == [H |-> 42949, L |-> 67295]
Dec5_TWO_31 == [H |-> 21474, L |-> 83648]

\* the value of a u32 [hi, lo] as [H, L]: hi * 65536 = (hi * 655) * 100 + hi * 36
U32ToDec5(v) ==
    LET rest == ((v.hi * 655) % 1000) * 100 + v.hi * 36 + v.lo
    IN  [H |-> ((v.hi * 655) \div 1000) + (rest \div 100000), L |-> rest % 100000]

\* 2 * (n - 1) + b for n >= 1 as [H, L]
PlyOf(n, b) ==
    LET m == IF n.L = 0 THEN [H |-> n.H - 1, L |-> 99999] ELSE [H |-> n.H, L |-> n.L - 1]
    IN  [H |-> 2 * m.H + ((2 * m.L) \div 100000), L |-> ((2 * m.L) % 100000) + b]

\* the squares a placement field describes: a digit d for d, a letter for one
RECURSIVE SquaresDescribed(_)
SquaresDescribed(pl) ==
    IF pl = <<>> THEN 0
    ELSE (IF IsDecDigit(Head(pl)) THEN DecDigitOf(Head(pl))
          ELSE IF Head(pl) = "/" THEN 0 ELSE 1) + SquaresDescribed(Tail(pl))

RecognizedOnly(pl) ==
    \A i \in DOMAIN pl : IsDecDigit(pl[i]) \/ pl[i] = "/" \/ pl[i] \in PieceLetterSet

\* some letter of the field comes after 64 or more described squares:
\* the scan from char i on, with n squares described before it
RECURSIVE LetterPastFrom(_, _, _)
LetterPastFrom(pl, i, n) ==
    IF i > Len(pl) THEN FALSE
    ELSE IF IsDecDigit(pl[i]) THEN LetterPastFrom(pl, i + 1, n + DecDigitOf(pl[i]))
    ELSE IF pl[i] = "/" THEN LetterPastFrom(pl, i + 1, n)
    ELSE n >= 64 \/ LetterPastFrom(pl, i + 1, n + 1)

LetterPastBoard(pl) == LetterPastFrom(pl, 1, 0)

\* the '/'-separated groups of a placement field
RECURSIVE RankGroups(_, _)
RankGroups(pl, cur) ==
    IF pl = <<>> THEN <<cur>>
    ELSE IF Head(pl) = "/" THEN <<cur>> \o RankGroups(Tail(pl), <<>>)
    ELSE RankGroups(Tail(pl), Append(cur, Head(pl)))

\* the squares a group describes, file a first
RECURSIVE Expand(_)
Expand(g) ==
    IF g = <<>> THEN <<>>
    ELSE (IF IsDecDigit(Head(g)) THEN [i \in 1 .. DecDigitOf(Head(g)) |-> Piece_None]
          ELSE <<PieceOfLetter(Head(g))>>) \o Expand(Tail(g))

IsEightByEight(pl) ==
    LET gs == RankGroups(pl, <<>>)
    IN  Len(gs) = 8 /\ \A j \in 1 .. 8 : Len(Expand(gs[j])) = 8

\* the k-th square of group j (j = 0 for rank 8) is square 8 * (7 - j) + k
ExpectedBoard(pl) ==
    LET gs == RankGroups(pl, <<>>)
    IN  [s \in 0 .. 63 |-> Expand(gs[8 - (s \div 8)])[(s % 8) + 1]]

\* the square at place i of the display order: rank 8 first, file a first
DisplaySquare(i) == 8 * (7 - (i \div 8)) + (i % 8)

Returned == result # NoPosition
\* from_fen has ended, by its return or by a panic
Decoded == pc = "done" \/ aborted
BlackToMove == fields[2] = <<"b">>

---------------------------------------------------------------------------
PutsOnDistinctEmptySquares ==
    /\ \A i \in DOMAIN put_log : put_log[i].prev = Piece_None
    /\ \A i, j \in DOMAIN put_log : i # j => put_log[i].s # put_log[j].s

\* C1: after from_fen has decoded a placement of digits, '/' and piece
\* letters that describes exactly 64 squares, and after any put_piece calls
\* of the caller on distinct, previously empty squares, every square s whose
\* board entry is a piece pc has bit s set in bbs[type_of(pc)] and in
\* bbs_color[color(pc)].
C1_OccupiedSquaresHaveBits ==
    (/\ Returned
     /\ RecognizedOnly(fields[1])
     /\ SquaresDescribed(fields[1]) = 64
     /\ PutsOnDistinctEmptySquares)
    => \A s \in Squares :
          result.board[s] # Piece_None
          => /\ index(s) \in result.bbs[type_of(result.board[s])]
             /\ index(s) \in result.bbs_color[color(result.board[s])]

\* C2: for each of the 64 real squares, to_bb returns the Square-Set whose
\* only set bit is bit index() of the square.
C2_ToBbSingleton ==
    ("to_bb" \in call.done /\ call.sq \in Squares) => call.bb = {index(call.sq)}

\* C3: an en-passant field of a file letter and '3' with White to move gives
\* the rank-3 square of the file (16 + file), a file letter and '6' with
\* Black to move gives the rank-6 square (40 + file), and "-" gives the
\* no-square sentinel.
C3_EnPassantDecode ==
    Returned =>
        LET ep == fields[4]
            two == Len(ep) = 2 /\ ep[1] \in FileLetterSet
        IN  /\ (two /\ ep[2] = "3" /\ fields[2] = <<"w">>)
                  => result.ep_square = 16 + FileOf(ep[1])
            /\ (two /\ ep[2] = "6" /\ fields[2] = <<"b">>)
                  => result.ep_square = 40 + FileOf(ep[1])
            /\ (ep = <<"-">>) => result.ep_square = SQ_NONE

KindUnion(q) == UNION {q.bbs[k] : k \in RealKinds}
ColorUnion(q) == q.bbs_color[White] \cup q.bbs_color[Black]

\* C4: after the standard starting FEN is decoded, the union of the per-kind
\* Square-Sets of the six piece kinds equals the union of the two per-color
\* Square-Sets, and both have exactly 32 bits set.
C4_StartingUnions ==
    (Returned /\ put_log = <<>> /\ fields = split_whitespace(DEFAULT_FEN_STRING))
    => /\ KindUnion(result) = ColorUnion(result)
       /\ Cardinality(KindUnion(result)) = 32
       /\ Cardinality(ColorUnion(result)) = 32

\* C5: after from_fen has decoded any placement, unrecognized letters
\* included, every square whose board entry is no-piece has its bit clear in
\* all eight per-kind Square-Sets and in both per-color Square-Sets.
C5_EmptySquaresHaveNoBits ==
    (Returned /\ put_log = <<>>)
    => \A s \in Squares :
          result.board[s] = Piece_None
          => /\ \A k \in PieceTypes : index(s) \notin result.bbs[k]
             /\ \A c \in Colors : index(s) \notin result.bbs_color[c]

---------------------------------------------------------------------------
ClockFieldsReached ==
    /\ Len(fields) >= 6
    /\ pc = "done" \/ (aborted /\ pc \in {"halfmove", "fullmove"})
    /\ IsNumeral(fields[5])
    /\ Dec5Leq(Dec5(fields[5]), Dec5_U32_MAX)
    /\ IsNumeral(fields[6])
    /\ Dec5Leq([H |-> 0, L |-> 1], Dec5(fields[6]))

ClocksAsGiven ==
    /\ pc = "done"
    /\ U32ToDec5(result.rule50_count) = Dec5(fields[5])
    /\ U32ToDec5(result.game_ply) = PlyOf(Dec5(fields[6]), IF BlackToMove THEN 1 ELSE 0)

\* C6: for a half-move field h below 2^32 and a full-move field n with
\* 1 <= n <= 2^31, from_fen returns with rule50_count = h and
\* game_ply = 2 * (n - 1) + (1 if Black is to move, else 0).
C6_ClockFields ==
    (ClockFieldsReached /\ Dec5Leq(Dec5(fields[6]), Dec5_TWO_31)) => ClocksAsGiven

\* C6 as claimed: the same for every full-move field n with 1 <= n < 2^32.
C6_ClockFieldsAnyFullmove ==
    (ClockFieldsReached /\ Dec5Leq(Dec5(fields[6]), Dec5_U32_MAX)) => ClocksAsGiven

\* the largest full-move number decoded, with Black to move: ply 2^32 - 1
C6_Witness ==
    /\ pc = "done"
    /\ fields[5] = <<"4">>
    /\ fields[6] = <<"2", "1", "4", "7", "4", "8", "3", "6", "4", "8">>
    /\ BlackToMove
    /\ result.rule50_count = U32(0, 4)
    /\ result.game_ply = U32(65535, 65535)

---------------------------------------------------------------------------
StageNo ==
    [st \in {"placement", "turn", "castling", "ep", "halfmove", "fullmove", "done"} |->
        CASE st = "placement" -> 1 [] st = "turn" -> 2 [] st = "castling" -> 3
          [] st = "ep" -> 4 [] st = "halfmove" -> 5 [] st = "fullmove" -> 6
          [] st = "done" -> 7]

IsClock(tok) ==
    IsSignedNumeral(tok) /\ Dec5Leq(Dec5(Unsigned(tok)), Dec5_U32_MAX)

MalformedField(k) ==
    CASE k = 1 -> LetterPastBoard(fields[1])
      [] k = 2 -> fields[2] \notin {<<"w">>, <<"b">>}
      [] k = 4 -> \/ fields[4][1] \notin ({"-"} \cup FileLetterSet)
                  \/ (fields[4][1] = "-" /\ Len(fields[4]) >= 2)
      [] k = 5 -> ~IsClock(fields[5])
      [] k = 6 -> ~IsClock(fields[6])
      [] OTHER -> FALSE

SomeMalformed == \E k \in 1 .. 6 : MalformedField(k)
FirstMalformed == CHOOSE k \in 1 .. 6 : MalformedField(k) /\ \A j \in 1 .. k - 1 : ~MalformedField(j)

---------------------------------------------------------------------------
\* C8: for both colors and the six real piece kinds, Piece::make gives one of
\* the twelve valid encodings (never 0b1000) whose color() and type_of() are
\* the arguments; for the kinds None and All it gives no-piece.
C8_MakeRoundTrip ==
    /\ ("make" \in call.done /\ call.kind \in RealKinds)
          => call.piece \in Range(LetterPieces) /\ call.piece # 8
    /\ ("color" \in call.done /\ call.kind \in RealKinds) => call.rcolor = call.color
    /\ ("type_of" \in call.done /\ call.kind \in RealKinds) => call.rkind = call.kind
    /\ ("make" \in call.done /\ call.kind \in {PT_None, PT_All})
          => call.piece = Piece_None

C8_Witness ==
    /\ {"make", "color", "type_of"} \subseteq call.done
    /\ call.color = Black
    /\ call.kind = PT_K
    /\ call.piece = BlackKing
    /\ call.rcolor = Black
    /\ call.rkind = PT_K

---------------------------------------------------------------------------
C9_ScanStep ==
    (pc = "placement" /\ Len(fields) >= 1 /\ chr' = chr + 1)
    => LET c == fields[1][chr + 1]
       IN  IF IsDecDigit(c) THEN idx' = idx + DecDigitOf(c) /\ p' = p
           ELSE IF c = "/" THEN idx' = idx /\ p' = p
           ELSE /\ idx' = idx + 1
                /\ p'.board = [p.board EXCEPT ![DisplaySquare(idx)] = PieceOfLetter(c)]

C9_ScanResult ==
    /\ (pc = "placement" /\ chr = 0) => idx = 0
    /\ (Returned /\ put_log = <<>> /\ IsEightByEight(fields[1]))
          => result.board = ExpectedBoard(fields[1])
    /\ (Returned /\ put_log = <<>> /\ fields = split_whitespace(DEFAULT_FEN_STRING))
          => /\ [f \in 0 .. 7 |-> result.board[f]]
                  = [f \in 0 .. 7 |-> PieceOfLetter(<<"R", "N", "B", "Q", "K", "B", "N", "R">>[f + 1])]
             /\ [f \in 0 .. 7 |-> result.board[56 + f]]
                  = [f \in 0 .. 7 |-> PieceOfLetter(<<"r", "n", "b", "q", "k", "b", "n", "r">>[f + 1])]

\* C9: the placement scan starts with the cursor at 0; a digit d advances the
\* cursor by d and writes nothing, '/' changes nothing, a letter writes its
\* piece at the cursor's square in display order and advances the cursor by
\* one.  So after a field of eight groups of eight squares, the k-th square
\* of group j holds its letter's piece at board[8 * (7 - j) + k], skipped
\* squares hold no-piece, and the starting FEN puts RNBQKBNR on rank 1 and
\* rnbqkbnr on rank 8.
C9_PlacementScan == [][C9_ScanStep]_vars /\ []C9_ScanResult

C9_Witness ==
    /\ Returned
    /\ fields = split_whitespace(DEFAULT_FEN_STRING)
    /\ result.board[4] = WhiteKing
    /\ result.board[59] = BlackQueen
    /\ result.board[28] = Piece_None

---------------------------------------------------------------------------
OnlyAdds(q, r) ==
    /\ \A k \in PieceTypes : q.bbs[k] \subseteq r.bbs[k]
    /\ \A c \in Colors : q.bbs_color[c] \subseteq r.bbs_color[c]

Frame(q, r, pcv, s) ==
    /\ \A t \in Squares : t # index(s) => r.board[t] = q.board[t]
    /\ \A k \in PieceTypes : k # type_of(pcv) => r.bbs[k] = q.bbs[k]
    /\ \A c \in Colors : c # color(pcv) => r.bbs_color[c] = q.bbs_color[c]
    /\ r.turn = q.turn
    /\ r.castle_rights = q.castle_rights
    /\ r.ep_square = q.ep_square
    /\ r.rule50_count = q.rule50_count
    /\ r.game_ply = q.game_ply

C10_PutStep ==
    \* a call of the caller on the Position returned
    /\ (pc = "done" /\ Len(put_log') = Len(put_log) + 1)
          => LET e == put_log'[Len(put_log')]
             IN  OnlyAdds(result, result') /\ Frame(result, result', e.pc, e.s)
    \* a call of the placement loop: a letter at a cursor on the board
    /\ (pc = "placement" /\ Len(fields) >= 1 /\ chr' = chr + 1
            /\ ~IsDecDigit(fields[1][chr + 1]) /\ fields[1][chr + 1] # "/")
          => /\ OnlyAdds(p, p')
             /\ Frame(p, p', p'.board[DisplaySquare(idx)], DisplaySquare(idx))

\* C10: a put_piece(pc, s) call only adds: every bit set in a per-kind or
\* per-color Square-Set before the call is set after it, and the call leaves
\* alone every board entry but board[s.index()], every per-kind Square-Set
\* but bbs[type_of(pc)], the Square-Set of the other color, and turn,
\* castle_rights, ep_square, rule50_count and game_ply.
C10_PutPieceOnlyAdds == [][C10_PutStep]_vars

\* a second piece put on A1: the bits of the rook it replaces remain
C10_Witness ==
    /\ Returned
    /\ Len(put_log) >= 1
    /\ put_log[1] = [pc |-> BlackKing, s |-> 0, prev |-> WhiteRook]
    /\ result.board[0] = BlackKing
    /\ 0 \in result.bbs[PT_R]
    /\ 0 \in result.bbs[PT_K]
    /\ 0 \in result.bbs_color[White]
    /\ 0 \in result.bbs_color[Black]

====
